---- MODULE Spec2Model ----
(***************************************************************************)
(* Membership registry of the XMPP MUC gateway                             *)
(* (src/src/xmppjs/GatewayMUCMembership.ts).                               *)
(*                                                                         *)
(* A string is a sequence of characters (one-character TLA+ strings), so   *)
(* that parsing an address, stripping its resource and printing it back    *)
(* are computed as @xmpp/jid computes them.  The local parts used here     *)
(* hold no character that @xmpp/jid escapes (space, quotes, &, :, <, >,    *)
(* backslash), so escaping is the identity on them and is not modelled.    *)
(*                                                                         *)
(* A room's Set<IGatewayMember> is a sequence in insertion order, which is *)
(* the iteration order of a JavaScript Set.  A member object returned by   *)
(* find() is the first element of the room that satisfies the predicate;   *)
(* every element before it with the same value would have satisfied the    *)
(* predicate too, so the object is the first element with that value.      *)
(***************************************************************************)
EXTENDS Naturals, Sequences, FiniteSets, TLC

VARIABLES
    members,   \* this.members: chatName -> insertion-ordered members
    call,      \* the last public method called, its arguments and result
    pre,       \* this.members as it was when that method was called
    everAdded, \* the chat names addMatrixMember or addXmppMember was called with
    joined,    \* per variant, the (chatName, identity) whose last true result,
               \* among the calls taken by the caller, was that of an add
    handlers,  \* event handlers of one room: their registry call, done or not, result
    liveDevices, \* devices the handlers run so far have added and not removed
    stanza,    \* the stanza object a caller of the builders holds
    made,      \* the arguments its constructor was given, and what was added since
    stanzaPre, \* the object as it was before the last operation on it
    stanzaOp,  \* the last operation on it: "new", "identity.add", "feature.add", "xml"
    rendered   \* the text the last read of xml returned

registryVars == <<members, call, pre, everAdded, joined>>

handlerVars == <<handlers, liveDevices>>

stanzaVars == <<stanza, made, stanzaPre, stanzaOp, rendered>>

vars == <<members, call, pre, everAdded, joined, handlers, liveDevices,
          stanza, made, stanzaPre, stanzaOp, rendered>>

(***************************************************************************)
(* Bounds and input sets.                                                  *)
(***************************************************************************)
\* Participants held by the whole registry; an add that would create one
\* more is not called.
MaxMembers == 2

\* Event handlers pending together, at most.
MaxHandlers == 3

ChatNames == {"chat1", "chat2"}

MatrixIds == {"@u:hs", "@v:hs"}

\* "c@m/n" and "c@m/o": two occupant addresses of one conference room.
AnonStrings == { <<"c", "@", "m", "/", "n">>, <<"c", "@", "m", "/", "o">> }

\* Addresses of connected devices: two devices of a@x and one of the
\* domain-only entity x.
DeviceStrings ==
    { <<"a", "@", "x", "/", "1">>, <<"a", "@", "x", "/", "2">>, <<"x", "/", "1">> }

\* Address strings given to lookups and removals: the devices, the bare
\* addresses, an upper-case spelling and one with an empty domain.
AddressStrings ==
    DeviceStrings \cup
    { <<"a", "@", "x">>, <<"x">>, <<"A", "@", "x", "/", "1">>, <<"a", "@">> }

(***************************************************************************)
(* @xmpp/jid as the registry uses it.                                      *)
(***************************************************************************)
\* String.prototype.indexOf, 1-based; 0 when c does not occur.
indexOf(s, c) ==
    IF \E i \in 1..Len(s) : s[i] = c
    THEN CHOOSE i \in 1..Len(s) : s[i] = c /\ \A k \in 1..(i - 1) : s[k] # c
    ELSE 0

lowerChar(c) ==
    CASE c = "A" -> "a"
      [] c = "X" -> "x"
      [] OTHER -> c

RECURSIVE toLowerCase(_)
toLowerCase(s) ==
    IF s = <<>> THEN <<>> ELSE <<lowerChar(Head(s))>> \o toLowerCase(Tail(s))

\* new JID(local, domain, resource): local and domain are lower-cased, the
\* resource is kept as given.
JID(local, domain, resource) ==
    [local |-> toLowerCase(local), domain |-> toLowerCase(domain), resource |-> resource]

\* The three parts parse() cuts a string into: the resource follows the
\* first "/", the local part precedes the first "@" of what is before it.
parse(s) ==
    LET resourceStart == indexOf(s, "/")
        s1 == IF resourceStart # 0 THEN SubSeq(s, 1, resourceStart - 1) ELSE s
        atStart == indexOf(s1, "@")
    IN  [local    |-> IF atStart # 0 THEN SubSeq(s1, 1, atStart - 1) ELSE <<>>,
         domain   |-> IF atStart # 0 THEN SubSeq(s1, atStart + 1, Len(s1)) ELSE s1,
         resource |-> IF resourceStart # 0 THEN SubSeq(s, resourceStart + 1, Len(s)) ELSE <<>>]

\* Variant: the JID constructor accepts an empty domain.
jidThrows_never(s) == FALSE

\* jid(s) throws TypeError("Invalid domain.") when the domain part is empty.
jidThrows(s) == parse(s).domain = <<>>

\* jid(s) for a string it accepts.
jid(s) == JID(parse(s).local, parse(s).domain, parse(s).resource)

\* JID.prototype.toString: "local@" only when there is a local part,
\* "/resource" only when there is a resource.
toString(j) ==
    (IF j.local # <<>> THEN j.local \o <<"@">> ELSE <<>>)
        \o j.domain
        \o (IF j.resource # <<>> THEN <<"/">> \o j.resource ELSE <<>>)

\* The template string `${j.local}@${j.domain}`.
strippedTemplate(j) == j.local \o <<"@">> \o j.domain

\* The value of the realJid and devices fields a matrix member does not have.
NoJid == [local |-> <<>>, domain |-> <<>>, resource |-> <<>>]

AnonJids == { jid(s) : s \in AnonStrings }

RealJids == { jid(s) : s \in DeviceStrings }

(***************************************************************************)
(* Array and Set helpers.                                                  *)
(***************************************************************************)
\* Array.prototype.find, given the positions `hits` of the elements that
\* satisfy the predicate: <<>> for undefined, <<e>> for the first match e.
find(list, hits) ==
    IF hits = {} THEN <<>>
    ELSE <<list[CHOOSE i \in hits : \A k \in hits : i <= k]>>

\* Position of the object `member` in a room.
positionOf(list, member) ==
    CHOOSE i \in 1..Len(list) : list[i] = member /\ \A k \in 1..(i - 1) : list[k] # member

\* Set.prototype.delete of an object the set holds.
setDelete(list, member) ==
    LET p == positionOf(list, member)
    IN  SubSeq(list, 1, p - 1) \o SubSeq(list, p + 1, Len(list))

\* The room after the object `member` was mutated in place into `changed`.
mutated(list, member, changed) ==
    [list EXCEPT ![positionOf(list, member)] = changed]

\* Map.prototype.set.
mapSet(m, chatName, set) ==
    [c \in DOMAIN m \cup {chatName} |-> IF c = chatName THEN set ELSE m[c]]

RECURSIVE sizeOver(_, _)
sizeOver(m, rooms) ==
    IF rooms = {} THEN 0
    ELSE LET c == CHOOSE r \in rooms : TRUE
         IN  Len(m[c]) + sizeOver(m, rooms \ {c})

\* Number of member objects the registry holds.
totalMembers(m) == sizeOver(m, DOMAIN m)

(***************************************************************************)
(* Lookups of GatewayMUCMembership, as functions of this.members.          *)
(***************************************************************************)
hasMembershipForRoom(m, chatName) == chatName \in DOMAIN m

getMembers(m, chatName) == IF chatName \in DOMAIN m THEN m[chatName] ELSE <<>>

\* Variant: the fallback Set is stored, as the add methods store theirs.
getMembersEffect_stores(m, chatName) == mapSet(m, chatName, getMembers(m, chatName))

\* this.members after getMembers(chatName): the fallback `new Set()` is
\* returned, never stored.
getMembersEffect(m, chatName) == m

getXmppMembers(m, chatName) ==
    SelectSeq(getMembers(m, chatName), LAMBDA s : s.type = "xmpp")

getMatrixMembers(m, chatName) ==
    SelectSeq(getMembers(m, chatName), LAMBDA s : s.type = "matrix")

RECURSIVE flatDevices(_)
flatDevices(list) ==
    IF list = <<>> THEN {} ELSE Head(list).devices \cup flatDevices(Tail(list))

getXmppMembersDevices(m, chatName) == flatDevices(getXmppMembers(m, chatName))

\* Variant: the occupant addresses are compared without their nick.
getMemberByAnonJid_ignoresNick(m, chatName, anonJid) ==
    LET list == getMembers(m, chatName)
    IN  find(list, { i \in 1..Len(list) :
                       strippedTemplate(list[i].anonymousJid)
                           = strippedTemplate(jid(anonJid)) })

getMemberByAnonJid(m, chatName, anonJid) ==
    LET list == getMembers(m, chatName)
    IN  find(list, { i \in 1..Len(list) : toString(list[i].anonymousJid) = anonJid })

getMemberByMatrixId(m, chatName, matrixId) ==
    LET list == getMembers(m, chatName)
    IN  find(list, { i \in 1..Len(list) : list[i].matrixId = matrixId })

\* Variant: the variant filter is forgotten (getMembers for getMatrixMembers).
getMatrixMemberByMatrixId_anyType(m, chatName, matrixId) ==
    LET list == getMembers(m, chatName)
    IN  find(list, { i \in 1..Len(list) : list[i].matrixId = matrixId })

getMatrixMemberByMatrixId(m, chatName, matrixId) ==
    LET list == getMatrixMembers(m, chatName)
    IN  find(list, { i \in 1..Len(list) : list[i].matrixId = matrixId })

\* realJid is a string the caller passes; jid(realJid) has not thrown.
getXmppMemberByRealJid(m, chatName, realJid) ==
    LET j == jid(realJid)
        strippedJid == strippedTemplate(j)
        list == getXmppMembers(m, chatName)
    IN  find(list, { i \in 1..Len(list) : toString(list[i].realJid) = strippedJid })

getXmppMemberByMatrixId(m, chatName, matrixId) ==
    LET list == getXmppMembers(m, chatName)
    IN  find(list, { i \in 1..Len(list) : list[i].matrixId = matrixId })

(***************************************************************************)
(* The four mutating methods: the registry and the value returned, as a    *)
(* function of this.members and the arguments.                             *)
(***************************************************************************)
addMatrixMember(m, chatName, matrixId, anonymousJid) ==
    IF getMatrixMemberByMatrixId(m, chatName, matrixId) # <<>>
    THEN [members |-> m, ret |-> FALSE]
    ELSE LET set == getMembers(m, chatName)
             member == [type         |-> "matrix",
                        anonymousJid |-> anonymousJid,
                        matrixId     |-> matrixId,
                        realJid      |-> NoJid,
                        devices      |-> {}]
         IN  [members |-> mapSet(m, chatName, Append(set, member)), ret |-> TRUE]

\* Variant: a further device overwrites the identities given with the first.
addXmppMember_overwrites(m, chatName, realJid, anonymousJid, matrixId) ==
    LET strippedDevice == jid(strippedTemplate(realJid))
        found == getXmppMemberByRealJid(m, chatName, toString(strippedDevice))
        member == [type         |-> "xmpp",
                   anonymousJid |-> anonymousJid,
                   matrixId     |-> matrixId,
                   realJid      |-> strippedDevice,
                   devices      |-> {toString(realJid)}]
    IN  IF found # <<>>
        THEN LET grown == [member EXCEPT !.devices = @ \cup found[1].devices]
             IN  [members |-> [m EXCEPT ![chatName] = mutated(@, found[1], grown)],
                  ret     |-> FALSE]
        ELSE [members |-> mapSet(m, chatName, Append(getMembers(m, chatName), member)),
              ret     |-> TRUE]

\* realJid is a JID object here.
addXmppMember(m, chatName, realJid, anonymousJid, matrixId) ==
    LET strippedDevice == jid(strippedTemplate(realJid))
        found == getXmppMemberByRealJid(m, chatName, toString(strippedDevice))
    IN  IF found # <<>>
        THEN LET member == found[1]
                 grown == [member EXCEPT !.devices = @ \cup {toString(realJid)}]
             IN  [members |-> [m EXCEPT ![chatName] = mutated(@, member, grown)],
                  ret     |-> FALSE]
        ELSE LET set == getMembers(m, chatName)
                 member == [type         |-> "xmpp",
                            anonymousJid |-> anonymousJid,
                            matrixId     |-> matrixId,
                            realJid      |-> strippedDevice,
                            devices      |-> {toString(realJid)}]
             IN  [members |-> mapSet(m, chatName, Append(set, member)), ret |-> TRUE]

\* Variant: the Map entry of a room that became empty is deleted.
removeMatrixMember_dropsRoom(m, chatName, matrixId) ==
    LET found == getMatrixMemberByMatrixId(m, chatName, matrixId)
    IN  IF found = <<>>
        THEN [members |-> m, ret |-> FALSE]
        ELSE LET set == setDelete(m[chatName], found[1])
             IN  [members |-> IF set = <<>>
                              THEN [c \in DOMAIN m \ {chatName} |-> m[c]]
                              ELSE [m EXCEPT ![chatName] = set],
                  ret     |-> TRUE]

\* Variant: the member is looked up by matrixId alone, whatever its type.
removeMatrixMember_anyVariant(m, chatName, matrixId) ==
    LET found == getMemberByMatrixId(m, chatName, matrixId)
    IN  IF found = <<>>
        THEN [members |-> m, ret |-> FALSE]
        ELSE [members |-> [m EXCEPT ![chatName] = setDelete(@, found[1])], ret |-> TRUE]

removeMatrixMember(m, chatName, matrixId) ==
    LET found == getMatrixMemberByMatrixId(m, chatName, matrixId)
    IN  IF found = <<>>
        THEN [members |-> m, ret |-> FALSE]
        ELSE [members |-> [m EXCEPT ![chatName] = setDelete(@, found[1])], ret |-> TRUE]

\* Variant: the devices.size test is forgotten after a device is deleted.
removeXmppMember_keepsEmpty(m, chatName, realJid) ==
    LET j == jid(realJid)
        found == getXmppMemberByRealJid(m, chatName, realJid)
    IN  IF found = <<>>
        THEN [members |-> m, ret |-> FALSE]
        ELSE LET member == found[1]
                 shrunk == [member EXCEPT !.devices = @ \ {toString(j)}]
             IN  IF j.resource # <<>>
                 THEN [members |-> [m EXCEPT ![chatName] = mutated(@, member, shrunk)],
                       ret     |-> FALSE]
                 ELSE [members |-> [m EXCEPT ![chatName] = setDelete(@, member)],
                       ret     |-> TRUE]

\* Variant: the devices.size test is made before the device is deleted.
removeXmppMember_sizeBeforeDelete(m, chatName, realJid) ==
    LET j == jid(realJid)
        found == getXmppMemberByRealJid(m, chatName, realJid)
    IN  IF found = <<>>
        THEN [members |-> m, ret |-> FALSE]
        ELSE LET member == found[1]
                 shrunk == [member EXCEPT !.devices = @ \ {toString(j)}]
             IN  IF j.resource # <<>> /\ Cardinality(member.devices) > 1
                 THEN [members |-> [m EXCEPT ![chatName] = mutated(@, member, shrunk)],
                       ret     |-> FALSE]
                 ELSE [members |-> [m EXCEPT ![chatName] = setDelete(@, member)],
                       ret     |-> TRUE]

\* realJid is a string the caller passes; jid(realJid) has not thrown.
removeXmppMember(m, chatName, realJid) ==
    LET j == jid(realJid)
        found == getXmppMemberByRealJid(m, chatName, realJid)
    IN  IF found = <<>>
        THEN [members |-> m, ret |-> FALSE]
        ELSE LET member == found[1]
                 shrunk == [member EXCEPT !.devices = @ \ {toString(j)}]
             IN  IF j.resource # <<>> /\ shrunk.devices # {}
                 THEN [members |-> [m EXCEPT ![chatName] = mutated(@, member, shrunk)],
                       ret     |-> FALSE]
                 ELSE [members |-> [m EXCEPT ![chatName] = setDelete(@, member)],
                       ret     |-> TRUE]

(***************************************************************************)
(* The stanza builders (src/unnamed/part_000).  A stanza object is a       *)
(* record with the fields of all the classes; a class leaves the fields of *)
(* the others at their blank value.  Text is a sequence of characters, so  *)
(* that he.encode and the template literals of the xml getters are         *)
(* computed.  undefined and "" are both <<>>: the code only tests such     *)
(* values for truthiness, except where a template prints undefined.        *)
(***************************************************************************)
\* Variant: he.encode leaves the text as it is.
encode_raw(s) == s

\* he.encode of one character, with the default options: a hexadecimal
\* character reference for each of & < > " ' (the inputs here are ASCII
\* and hold no backtick).
encodeChar(c) ==
    CASE c = "&"  -> <<"&", "#", "x", "2", "6", ";">>
      [] c = "<"  -> <<"&", "#", "x", "3", "C", ";">>
      [] c = ">"  -> <<"&", "#", "x", "3", "E", ";">>
      [] c = "\"" -> <<"&", "#", "x", "2", "2", ";">>
      [] c = "'"  -> <<"&", "#", "x", "2", "7", ";">>
      [] OTHER    -> <<c>>

RECURSIVE encodeFrom(_, _)
encodeFrom(s, i) ==
    IF i > Len(s) THEN <<>> ELSE encodeChar(s[i]) \o encodeFrom(s, i + 1)

\* he.encode(s).
encode(s) == encodeFrom(s, 1)

\* `${v}` for a value that may be undefined.
interpolate(v) == IF v = <<>> THEN <<"u", "n", "d", "e", "f", "i", "n", "e",
    "d">> ELSE v

\* Array.prototype.toString: the elements joined by ",".
RECURSIVE arrayToString(_)
arrayToString(a) ==
    IF a = <<>> THEN <<>>
    ELSE IF Len(a) = 1 THEN a[1]
    ELSE a[1] \o <<",">> \o arrayToString(Tail(a))

\* An object of no class: the value of the stanza variables before any
\* constructor has run, and the blank fields of every class.
NoStanza ==
    [class |-> "none", _from |-> <<>>, _to |-> <<>>, _id |-> <<>>,
     presenceType |-> <<>>, includeXContent |-> TRUE,
     affiliation |-> <<>>, role |-> <<>>, self |-> FALSE, jid |-> <<>>,
     by |-> <<>>, errType |-> <<>>, innerError |-> <<>>,
     html |-> <<>>, body |-> <<>>, attachments |-> <<>>, messageType |-> <<>>,
     subject |-> <<>>, iqType |-> <<>>, queryType |-> <<>>,
     identity |-> <<>>, feature |-> <<>>]

\* set from(val), set to(val), set id(val) and get id() of StzaBase.
setFrom(s, val) == [s EXCEPT !._from = encode(val)]

setTo(s, val) == [s EXCEPT !._to = encode(val)]

setId(s, val) == IF val = <<>> THEN s ELSE [s EXCEPT !._id = encode(val)]

getId(s) == s._id

\* constructor of StzaBase, run for an object of the given class.
StzaBase(class, from, to, id) ==
    setId(setTo(setFrom([NoStanza EXCEPT !.class = class], from), to), id)

StzaPresence(class, from, to, id, presenceType) ==
    [StzaBase(class, from, to, id) EXCEPT !.presenceType = presenceType]

\* theJid is the constructor's parameter jid.
StzaPresenceItem(from, to, id, affiliation, role, self, theJid, itemType) ==
    [StzaPresence("StzaPresenceItem", from, to, id, itemType) EXCEPT
        !.affiliation = affiliation, !.role = role, !.self = self, !.jid = theJid]

StzaPresenceError(from, to, id, by, errType, innerError) ==
    [StzaPresence("StzaPresenceError", from, to, id, <<"e", "r", "r", "o",
        "r">>) EXCEPT
        !.by = by, !.errType = errType, !.innerError = innerError]

\* super() is given no presenceType; the parameter property assigns it
\* afterwards.
StzaPresenceJoin(from, to, id, presenceType) ==
    [StzaPresence("StzaPresenceJoin", from, to, id, <<>>) EXCEPT
        !.presenceType = presenceType]

StzaPresencePart(from, to) ==
    setId([StzaPresence("StzaPresencePart", from, to, <<>>, <<"u", "n", "a",
        "v", "a", "i", "l", "a", "b", "l", "e">>) EXCEPT
               !.includeXContent = FALSE],
          <<>>)

\* formatted.find((f) => f.type === "html"): <<f>> or <<>>.
findHtml(formatted) ==
    LET hits == { i \in 1..Len(formatted) : formatted[i].type = "html" }
    IN  IF hits = {} THEN <<>>
        ELSE <<formatted[CHOOSE i \in hits : \A k \in hits : i <= k]>>

\* idOrMsg is [kind, id, body, formatted, attachments]: kind "undefined",
\* "string" (only id counts) or "message" (an IBasicProtocolMessage whose
\* opts.attachments have the uris `attachments`).  v4 is what uuid()
\* returns if it is called.
StzaMessage(from, to, idOrMsg, messageType, v4) ==
    LET base == [StzaBase("StzaMessage", from, to, <<>>) EXCEPT
                     !.messageType = messageType]
        html == findHtml(idOrMsg.formatted)
        read ==
            IF idOrMsg.kind = "message"
            THEN setId([base EXCEPT
                           !.body = idOrMsg.body,
                           !.html = IF html # <<>> THEN html[1].body ELSE <<>>,
                           !.attachments = idOrMsg.attachments],
                       idOrMsg.id)
            ELSE IF idOrMsg.kind = "string" /\ idOrMsg.id # <<>>
            THEN setId(base, idOrMsg.id)
            ELSE base
    IN  setId(read, IF getId(read) # <<>> THEN getId(read) ELSE v4)

StzaMessageSubject(from, to, id, subject) ==
    [StzaBase("StzaMessageSubject", from, to, id) EXCEPT !.subject = subject]

StzaIqPing(from, to, id, v4) ==
    StzaBase("StzaIqPing", from, to, IF id # <<>> THEN id ELSE v4)

StzaIqDisco(class, from, to, id, iqType, queryType) ==
    [StzaBase(class, from, to, id) EXCEPT !.iqType = iqType, !.queryType = queryType]

\* The parameter properties from, to and id are assigned after super():
\* the assignments go through the setters of StzaBase once more.
StzaIqDiscoInfo(from, to, id) ==
    setId(setTo(setFrom(StzaIqDisco("StzaIqDiscoInfo", from, to, id,
                                    <<"r", "e", "s", "u", "l", "t">>, <<"i",
                                        "n", "f", "o">>),
                        from), to), id)

\* Set.prototype.add for the Set of identity objects and the Set of feature
\* strings.  An identity object is [obj, category, type, name]; obj tells
\* one object from another of equal content, and the Set holds an object
\* once.
identityAdd(s, o) ==
    IF \E i \in 1..Len(s.identity) : s.identity[i].obj = o.obj
    THEN s
    ELSE [s EXCEPT !.identity = Append(@, o)]

featureAdd(s, feat) ==
    IF \E i \in 1..Len(s.feature) : s.feature[i] = feat
    THEN s
    ELSE [s EXCEPT !.feature = Append(@, feat)]

\* get xProtocol().
xProtocol(s) ==
    IF s.class = "StzaPresenceItem" THEN <<"m", "u", "c", "#", "u", "s", "e",
        "r">> ELSE <<"m", "u", "c">>

\* get xContent() of StzaPresenceItem:
\* `<item affiliation='${affiliation}'${jid} role='${role}'/>${statusCode}`.
StzaPresenceItem_xContent(s) ==
    LET statusCode == IF s.self THEN <<"<", "s", "t", "a", "t", "u", "s", " ",
        "c", "o", "d", "e", "=", "'", "1", "1", "0", "'", "/", ">">> ELSE <<>>
        theJid == IF s.jid # <<>> THEN <<" ", "j", "i", "d", "=",
            "'">> \o s.jid \o <<"'">> ELSE <<>>
    IN  <<"<", "i", "t", "e", "m", " ", "a", "f", "f", "i", "l", "i", "a",
        "t", "i", "o", "n", "=", "'">> \o s.affiliation \o <<"'">> \o theJid
        \o <<" ", "r", "o", "l", "e", "=", "'">> \o s.role \o <<"'", "/",
            ">">> \o statusCode

\* get xContent().
xContent(s) ==
    CASE s.class = "StzaPresenceItem" -> StzaPresenceItem_xContent(s)
      [] s.class = "StzaPresenceJoin" -> <<"<", "h", "i", "s", "t", "o", "r",
          "y", " ", "m", "a", "x", "c", "h", "a", "r", "s", "=", "'", "0",
          "'", "/", ">">>
      [] OTHER -> <<>>

\* get presenceContent().
presenceContent(s) ==
    IF s.class = "StzaPresenceError"
    THEN <<"<", "e", "r", "r", "o", "r", " ", "t", "y", "p", "e", "=",
        "'">> \o s.errType \o <<"'", " ", "b", "y", "=",
        "'">> \o s.by \o <<"'", ">", "<">> \o s.innerError
         \o <<" ", "x", "m", "l", "n", "s", "=", "'", "u", "r", "n", ":", "i",
             "e", "t", "f", ":", "p", "a", "r", "a", "m", "s", ":", "x", "m",
             "l", ":", "n", "s", ":", "x", "m", "p", "p", "-", "s", "t", "a",
             "n", "z", "a", "s", "'", "/", ">", "<", "/", "e", "r", "r", "o",
             "r", ">">>
    ELSE <<>>

\* get xml() of StzaPresence.
StzaPresence_xml(s) ==
    LET type == IF s.presenceType # <<>>
                THEN <<" ", "t", "y", "p", "e", "=",
                    "'">> \o s.presenceType \o <<"'">> ELSE <<>>
        id == IF getId(s) # <<>> THEN <<" ", "i", "d", "=",
            "\"">> \o getId(s) \o <<"\"">> ELSE <<>>
        content ==
            IF s.includeXContent
            THEN IF xContent(s) # <<>>
                 THEN <<"<", "x", " ", "x", "m", "l", "n", "s", "=", "'", "h",
                     "t", "t", "p", ":", "/", "/", "j", "a", "b", "b", "e",
                     "r", ".", "o", "r", "g", "/", "p", "r", "o", "t", "o",
                     "c", "o", "l", "/">> \o xProtocol(s) \o <<"'", ">">>
                      \o xContent(s) \o <<"<", "/", "x", ">">>
                 ELSE <<"<", "x", " ", "x", "m", "l", "n", "s", "=", "'", "h",
                     "t", "t", "p", ":", "/", "/", "j", "a", "b", "b", "e",
                     "r", ".", "o", "r", "g", "/", "p", "r", "o", "t", "o",
                     "c", "o", "l", "/", "m", "u", "c", "'", "/", ">">>
            ELSE <<>>
    IN  <<"<", "p", "r", "e", "s", "e", "n", "c", "e", " ", "f", "r", "o",
        "m", "=", "\"">> \o s._from \o <<"\"", " ", "t", "o", "=",
        "\"">> \o s._to \o <<"\"">> \o id \o type \o <<">">>
        \o content \o presenceContent(s) \o <<"<", "/", "p", "r", "e", "s",
            "e", "n", "c", "e", ">">>

\* The out-of-band elements of the attachments.
RECURSIVE oobElements(_)
oobElements(attachments) ==
    IF attachments = <<>> THEN <<>>
    ELSE <<<<"<", "x", " ", "x", "m", "l", "n", "s", "=", "'", "j", "a", "b",
        "b", "e", "r", ":", "x", ":", "o", "o", "b", "'", ">", "<", "u", "r",
        "l", ">">> \o encode(Head(attachments)) \o <<"<", "/", "u", "r", "l",
        ">", "<", "/", "x", ">">>>>
         \o oobElements(Tail(attachments))

\* Variant: the body is overwritten whenever there is an attachment.
StzaMessage_body_anyAttachment(s) ==
    IF Len(s.attachments) >= 1 THEN s.attachments[1] ELSE s.body

\* this.body after the test of attachments.length in get xml().
StzaMessage_body(s) ==
    IF Len(s.attachments) = 1 THEN s.attachments[1] ELSE s.body

\* Variant: the encoded body is stored back into this.body.
StzaMessage_after_storesEncoded(s) ==
    [s EXCEPT !.body = encode(StzaMessage_body(s))]

\* The object get xml() of StzaMessage leaves behind.
StzaMessage_after(s) == [s EXCEPT !.body = StzaMessage_body(s)]

\* The text get xml() of StzaMessage returns.
StzaMessage_xml(s) ==
    LET type == IF s.messageType # <<>>
                THEN <<"t", "y", "p", "e", "=",
                    "'">> \o s.messageType \o <<"'">> ELSE <<>>
        attachments == oobElements(s.attachments)
    IN  <<"<", "m", "e", "s", "s", "a", "g", "e", " ", "f", "r", "o", "m",
        "=", "\"">> \o s._from \o <<"\"", " ", "t", "o", "=",
        "\"">> \o s._to \o <<"\"", " ", "i", "d", "=", "\"">>
        \o interpolate(getId(s)) \o <<"\"", " ">> \o type \o <<">">>
        \o s.html \o <<"<", "b", "o", "d", "y",
            ">">> \o encode(StzaMessage_after(s).body) \o <<"<", "/", "b",
            "o", "d", "y", ">">>
        \o arrayToString(attachments) \o <<"<", "/", "m", "e", "s", "s", "a",
            "g", "e", ">">>

StzaMessageSubject_xml(s) ==
    <<"<", "m", "e", "s", "s", "a", "g", "e", " ", "f", "r", "o", "m", "=",
        "\"">> \o s._from \o <<"\"", " ", "t", "o", "=",
        "\"">> \o s._to \o <<"\"", " ", "i", "d", "=", "\"">>
    \o interpolate(getId(s)) \o <<"\"", " ", "t", "y", "p", "e", "=", "'",
        "g", "r", "o", "u", "p", "c", "h", "a", "t", "'", ">">>
    \o <<"<", "s", "u", "b", "j", "e", "c", "t", ">">> \o s.subject \o <<"<",
        "/", "s", "u", "b", "j", "e", "c", "t", ">", "<", "/", "m", "e", "s",
        "s", "a", "g", "e", ">">>

StzaIqPing_xml(s) ==
    <<"<", "i", "q", " ", "f", "r", "o", "m", "=", "'">> \o s._from \o <<"'",
        " ", "t", "o", "=", "'">> \o s._to \o <<"'", " ", "i", "d", "=", "'">>
    \o interpolate(getId(s)) \o <<"'", " ", "t", "y", "p", "e", "=", "'", "g",
        "e", "t", "'", ">", "\n", " ", " ", " ", " ", "<", "p", "i", "n", "g",
        " ", "x", "m", "l", "n", "s", "=", "'", "u", "r", "n", ":", "x", "m",
        "p", "p", ":", "p", "i", "n", "g", "'", "/", ">", "\n", "<", "/", "i",
        "q", ">">>

RECURSIVE identityElements(_)
identityElements(identity) ==
    IF identity = <<>> THEN <<>>
    ELSE <<"<", "i", "d", "e", "n", "t", "i", "t", "y", " ", "c", "a", "t",
        "e", "g", "o", "r", "y", "=", "'">> \o Head(identity).category
         \o <<"'", " ", "t", "y", "p", "e", "=", "'">> \o Head(identity).type
         \o <<"'", " ", "n", "a", "m", "e", "=",
             "'">> \o Head(identity).name \o <<"'", "/", ">">>
         \o identityElements(Tail(identity))

RECURSIVE featureElements(_)
featureElements(feature) ==
    IF feature = <<>> THEN <<>>
    ELSE <<"<", "f", "e", "a", "t", "u", "r", "e", " ", "v", "a", "r", "=",
        "'">> \o Head(feature) \o <<"'", "/",
        ">">> \o featureElements(Tail(feature))

\* get queryContent().
queryContent(s) ==
    IF s.class = "StzaIqDiscoInfo"
    THEN identityElements(s.identity) \o featureElements(s.feature)
    ELSE <<>>

StzaIqDisco_xml(s) ==
    <<"<", "i", "q", " ", "f", "r", "o", "m", "=", "'">> \o s._from \o <<"'",
        " ", "t", "o", "=", "'">> \o s._to \o <<"'", " ", "i", "d", "=", "'">>
    \o interpolate(getId(s)) \o <<"'", " ", "t", "y", "p", "e", "=",
        "'">> \o s.iqType \o <<"'", ">", "\n", " ", " ", " ", " ", " ", " ",
        " ", " ">>
    \o <<"<", "q", "u", "e", "r", "y", " ", "x", "m", "l", "n", "s", "=", "'",
        "h", "t", "t", "p", ":", "/", "/", "j", "a", "b", "b", "e", "r", ".",
        "o", "r", "g", "/", "p", "r", "o", "t", "o", "c", "o", "l", "/", "d",
        "i", "s", "c", "o", "#">> \o s.queryType \o <<"'", ">", "\n", " ",
        " ", " ", " ", " ", " ", " ", " ">>
    \o queryContent(s) \o <<"<", "/", "q", "u", "e", "r", "y", ">", "<", "/",
        "i", "q", ">">>

PresenceClasses ==
    {"StzaPresence", "StzaPresenceItem", "StzaPresenceError", "StzaPresenceJoin",
     "StzaPresencePart"}

\* Reading s.xml: the text returned and the object afterwards.
xml(s) ==
    CASE s.class \in PresenceClasses ->
            [text |-> StzaPresence_xml(s), stanza |-> s]
      [] s.class = "StzaMessage" ->
            [text |-> StzaMessage_xml(s), stanza |-> StzaMessage_after(s)]
      [] s.class = "StzaMessageSubject" ->
            [text |-> StzaMessageSubject_xml(s), stanza |-> s]
      [] s.class = "StzaIqPing" ->
            [text |-> StzaIqPing_xml(s), stanza |-> s]
      [] s.class = "StzaIqDiscoInfo" ->
            [text |-> StzaIqDisco_xml(s), stanza |-> s]


(***************************************************************************)
(* Arguments the callers of the stanza builders pass.                      *)
(***************************************************************************)
\* Strings that hold one of the characters he.encode replaces.
Hostile == { <<"<">>, <<">">>, <<"&">>, <<"'">>, <<"\"">> }

Froms == { <<"a">> } \cup Hostile

Tos == { <<"b">>, <<"\"", ">">> }

Ids == { <<>>, <<"i">>, <<"<", "&">> }

PresenceTypes == { <<>>, <<"u", "n", "a", "v", "a", "i", "l", "a", "b", "l",
    "e">> }

\* jid of StzaPresenceItem: none, a@x/1 and a@x/' (a resource may hold any
\* character).
Jids == { <<>>, <<"a", "@", "x", "/", "1">>, <<"a", "@", "x", "/", "'">> }

Bodies == { <<>>, <<"h", "i">>, <<"<", "&", ">", "'", "\"">> }

\* formatted of a message record: none, and a plain entry before an html one.
Formatteds ==
    { <<>>,
      <<[type |-> "markdown", body |-> <<"*", "h", "*">>], [type |-> "html",
          body |-> <<"<", "b", ">", "h", "<", "/", "b", ">">>]>> }

\* The uris of opts.attachments: none, one, two.
Attachments == { <<>>, <<<<"u", "/", "1">>>>, <<<<"u", "?", "a", "&", "b">>>>,
    <<<<"u", "/", "1">>, <<"u", "?", "a", "&", "b">>>> }

MessageTypes == { <<>>, <<"g", "r", "o", "u", "p", "c", "h", "a", "t">> }

Subjects == { <<>>, <<"s">> }

\* What uuid() may return.
Uuids == { <<"9", "b">>, <<"1", "c">> }

\* Identity objects a caller adds: objects 1 and 2 are two object literals
\* of equal content, object 3 has another name.
IdentityObjects ==
    { [obj |-> 1, category |-> <<"c", "o", "n", "f", "e", "r", "e", "n", "c",
        "e">>, type |-> <<"t", "e", "x", "t">>, name |-> <<"g">>],
      [obj |-> 2, category |-> <<"c", "o", "n", "f", "e", "r", "e", "n", "c",
          "e">>, type |-> <<"t", "e", "x", "t">>, name |-> <<"g">>],
      [obj |-> 3, category |-> <<"c", "o", "n", "f", "e", "r", "e", "n", "c",
          "e">>, type |-> <<"t", "e", "x", "t">>, name |-> <<"h">>] }

Features == { <<"m", "u", "c">>, <<"v", "c", "a", "r", "d", "-", "t", "e",
    "m", "p">> }

NoMsg ==
    [kind |-> "undefined", id |-> <<>>, body |-> <<>>, formatted |-> <<>>,
     attachments |-> <<>>]

IdOrMsgs ==
    {NoMsg}
    \cup { [NoMsg EXCEPT !.kind = "string", !.id = id] : id \in Ids \ {<<>>} }
    \cup [kind : {"message"}, id : Ids, body : Bodies, formatted : Formatteds,
          attachments : Attachments]

\* The arguments of a constructor call, with the blank value for the
\* arguments the class does not take; identities and features are the
\* identity triples and feature strings added since.
NoArgs ==
    [class |-> "none", from |-> <<>>, to |-> <<>>, id |-> <<>>,
     presenceType |-> <<>>, self |-> FALSE, jid |-> <<>>, idOrMsg |-> NoMsg,
     messageType |-> <<>>, subject |-> <<>>, v4 |-> <<>>,
     identities |-> {}, features |-> {}]

\* new <class>(...) for the arguments a.
construct(a) ==
    CASE a.class = "StzaPresence" ->
            StzaPresence("StzaPresence", a.from, a.to, a.id, a.presenceType)
      [] a.class = "StzaPresenceItem" ->
            StzaPresenceItem(a.from, a.to, a.id, <<"m", "e", "m", "b", "e",
                "r">>, <<"p", "a", "r", "t", "i", "c", "i", "p", "a", "n",
                "t">>,
                             a.self, a.jid, a.presenceType)
      [] a.class = "StzaPresenceError" ->
            StzaPresenceError(a.from, a.to, a.id, <<"c", "@", "m">>, <<"c",
                "a", "n", "c", "e", "l">>, <<"c", "o", "n", "f", "l", "i",
                "c", "t">>)
      [] a.class = "StzaPresenceJoin" ->
            StzaPresenceJoin(a.from, a.to, a.id, a.presenceType)
      [] a.class = "StzaPresencePart" -> StzaPresencePart(a.from, a.to)
      [] a.class = "StzaMessage" ->
            StzaMessage(a.from, a.to, a.idOrMsg, a.messageType, a.v4)
      [] a.class = "StzaMessageSubject" ->
            StzaMessageSubject(a.from, a.to, a.id, a.subject)
      [] a.class = "StzaIqPing" -> StzaIqPing(a.from, a.to, a.id, a.v4)
      [] a.class = "StzaIqDiscoInfo" -> StzaIqDiscoInfo(a.from, a.to, a.id)

\* No stanza object exists: the state of the builders in the registry's
\* specifications.
NoStanzas ==
    /\ stanza = NoStanza
    /\ made = NoArgs
    /\ stanzaPre = NoStanza
    /\ stanzaOp = "none"
    /\ rendered = <<>>

(***************************************************************************)
(* State machine: one action per public method.                            *)
(***************************************************************************)
Adders == {"addMatrixMember", "addXmppMember"}

Mutators == Adders \cup {"removeMatrixMember", "removeXmppMember"}

Finders == {"getMemberByAnonJid", "getMemberByMatrixId", "getMatrixMemberByMatrixId",
            "getXmppMemberByRealJid", "getXmppMemberByMatrixId"}

Listers == {"getMembers", "getXmppMembers", "getMatrixMembers"}

Lookups == Finders \cup Listers \cup {"getXmppMembersDevices", "hasMembershipForRoom"}

\* The record of a call.  matrixId is "" and the other arguments are <<>>
\* or NoJid for a method that does not take them.  anonJid is the string
\* given to getMemberByAnonJid, anonymousJid the JID given to an add;
\* realJid is the JID given to addXmppMember and the string given to
\* removeXmppMember and getXmppMemberByRealJid.  threw says that the call
\* ended in the TypeError of jid(); ret is then meaningless.
Call(op, chatName, matrixId, anonymousJid, anonJid, realJid, threw, ret) ==
    [op |-> op, chatName |-> chatName, matrixId |-> matrixId,
     anonymousJid |-> anonymousJid, anonJid |-> anonJid, realJid |-> realJid,
     threw |-> threw, ret |-> ret]

\* No add has returned true yet.
NoneJoined == [xmpp |-> {}, matrix |-> {}]

\* No call is under way: the caller has taken the last result.
NoCall == Call("none", "", "", NoJid, <<>>, <<>>, FALSE, FALSE)

Idle == call = NoCall

\* The constructor: an empty Map.
Init ==
    /\ members = [c \in {} |-> <<>>]
    /\ pre = [c \in {} |-> <<>>]
    /\ call = NoCall
    /\ everAdded = {}
    /\ joined = NoneJoined
    /\ handlers = <<>>
    /\ liveDevices = {}
    /\ NoStanzas

\* A public method is called when no other is running (no method awaits or
\* yields), runs to its return and leaves the registry as `after`.
Invoke(after, c) ==
    /\ Idle
    /\ members' = after
    /\ pre' = members
    /\ call' = c
    /\ everAdded' = IF c.op \in Adders THEN everAdded \cup {c.chatName} ELSE everAdded
    /\ UNCHANGED <<joined, handlerVars, stanzaVars>>

\* The (chatName, identity) a call of a mutating method is about: the
\* matrixId for the matrix variant, the resource-stripped address for the
\* xmpp variant.
signalKey(c) ==
    CASE c.op = "addXmppMember" ->
            <<c.chatName, [c.realJid EXCEPT !.resource = <<>>]>>
      [] c.op = "removeXmppMember" ->
            <<c.chatName, [jid(c.realJid) EXCEPT !.resource = <<>>]>>
      [] OTHER -> <<c.chatName, c.matrixId>>

\* joined once the caller has taken the result of the call c.
signalled(c) ==
    IF c.op \notin Mutators \/ c.threw \/ c.ret # TRUE
    THEN joined
    ELSE CASE c.op = "addXmppMember" ->
                 [joined EXCEPT !.xmpp = @ \cup {signalKey(c)}]
           [] c.op = "removeXmppMember" ->
                 [joined EXCEPT !.xmpp = @ \ {signalKey(c)}]
           [] c.op = "addMatrixMember" ->
                 [joined EXCEPT !.matrix = @ \cup {signalKey(c)}]
           [] c.op = "removeMatrixMember" ->
                 [joined EXCEPT !.matrix = @ \ {signalKey(c)}]

\* The caller takes the result; the next event can be handled.
Return ==
    /\ ~Idle
    /\ call' = NoCall
    /\ pre' = members
    /\ joined' = signalled(call)
    /\ UNCHANGED <<members, everAdded>>
    /\ UNCHANGED <<handlerVars, stanzaVars>>

CallAddMatrixMember ==
    /\ Idle
    /\ \E chatName \in ChatNames, matrixId \in MatrixIds, anonymousJid \in AnonJids :
        LET r == addMatrixMember(members, chatName, matrixId, anonymousJid)
        IN  /\ totalMembers(r.members) <= MaxMembers
            /\ Invoke(r.members, Call("addMatrixMember", chatName, matrixId, anonymousJid,
                                      <<>>, <<>>, FALSE, r.ret))

CallAddXmppMember ==
    /\ Idle
    /\ \E chatName \in ChatNames, realJid \in RealJids,
       anonymousJid \in AnonJids, matrixId \in MatrixIds :
        LET r == addXmppMember(members, chatName, realJid, anonymousJid, matrixId)
        IN  /\ totalMembers(r.members) <= MaxMembers
            /\ Invoke(r.members, Call("addXmppMember", chatName, matrixId, anonymousJid,
                                      <<>>, realJid, FALSE, r.ret))

CallRemoveMatrixMember ==
    /\ Idle
    /\ \E chatName \in ChatNames, matrixId \in MatrixIds :
        LET r == removeMatrixMember(members, chatName, matrixId)
        IN  Invoke(r.members, Call("removeMatrixMember", chatName, matrixId, NoJid,
                                   <<>>, <<>>, FALSE, r.ret))

CallRemoveXmppMember ==
    /\ Idle
    /\ \E chatName \in ChatNames, realJid \in AddressStrings :
        IF jidThrows(realJid)
        THEN Invoke(members, Call("removeXmppMember", chatName, "", NoJid,
                                  <<>>, realJid, TRUE, FALSE))
        ELSE LET r == removeXmppMember(members, chatName, realJid)
             IN  Invoke(r.members, Call("removeXmppMember", chatName, "", NoJid,
                                        <<>>, realJid, FALSE, r.ret))

CallHasMembershipForRoom ==
    /\ Idle
    /\ \E chatName \in ChatNames :
        Invoke(members, Call("hasMembershipForRoom", chatName, "", NoJid, <<>>, <<>>,
                        FALSE, hasMembershipForRoom(members, chatName)))

CallGetMemberByAnonJid ==
    /\ Idle
    /\ \E chatName \in ChatNames, anonJid \in AnonStrings :
        Invoke(getMembersEffect(members, chatName),
               Call("getMemberByAnonJid", chatName, "", NoJid, anonJid, <<>>,
                        FALSE, getMemberByAnonJid(members, chatName, anonJid)))

CallGetMemberByMatrixId ==
    /\ Idle
    /\ \E chatName \in ChatNames, matrixId \in MatrixIds :
        Invoke(getMembersEffect(members, chatName),
               Call("getMemberByMatrixId", chatName, matrixId, NoJid, <<>>, <<>>,
                        FALSE, getMemberByMatrixId(members, chatName, matrixId)))

CallGetMatrixMemberByMatrixId ==
    /\ Idle
    /\ \E chatName \in ChatNames, matrixId \in MatrixIds :
        Invoke(getMembersEffect(members, chatName),
               Call("getMatrixMemberByMatrixId", chatName, matrixId, NoJid, <<>>, <<>>,
                        FALSE, getMatrixMemberByMatrixId(members, chatName, matrixId)))

CallGetXmppMemberByRealJid ==
    /\ Idle
    /\ \E chatName \in ChatNames, realJid \in AddressStrings :
        IF jidThrows(realJid)
        THEN Invoke(members, Call("getXmppMemberByRealJid", chatName, "", NoJid, <<>>,
                                  realJid, TRUE, <<>>))
        ELSE Invoke(getMembersEffect(members, chatName),
               Call("getXmppMemberByRealJid", chatName, "", NoJid, <<>>,
                                  realJid, FALSE,
                                  getXmppMemberByRealJid(members, chatName, realJid)))

CallGetXmppMemberByMatrixId ==
    /\ Idle
    /\ \E chatName \in ChatNames, matrixId \in MatrixIds :
        Invoke(getMembersEffect(members, chatName),
               Call("getXmppMemberByMatrixId", chatName, matrixId, NoJid, <<>>, <<>>,
                        FALSE, getXmppMemberByMatrixId(members, chatName, matrixId)))

CallGetXmppMembers ==
    /\ Idle
    /\ \E chatName \in ChatNames :
        Invoke(getMembersEffect(members, chatName),
               Call("getXmppMembers", chatName, "", NoJid, <<>>, <<>>,
                        FALSE, getXmppMembers(members, chatName)))

CallGetXmppMembersDevices ==
    /\ Idle
    /\ \E chatName \in ChatNames :
        Invoke(getMembersEffect(members, chatName),
               Call("getXmppMembersDevices", chatName, "", NoJid, <<>>, <<>>,
                        FALSE, getXmppMembersDevices(members, chatName)))

CallGetMatrixMembers ==
    /\ Idle
    /\ \E chatName \in ChatNames :
        Invoke(getMembersEffect(members, chatName),
               Call("getMatrixMembers", chatName, "", NoJid, <<>>, <<>>,
                        FALSE, getMatrixMembers(members, chatName)))

CallGetMembers ==
    /\ Idle
    /\ \E chatName \in ChatNames :
        Invoke(getMembersEffect(members, chatName),
               Call("getMembers", chatName, "", NoJid, <<>>, <<>>,
                        FALSE, getMembers(members, chatName)))

Next ==
    \/ CallAddMatrixMember
    \/ CallAddXmppMember
    \/ CallRemoveMatrixMember
    \/ CallRemoveXmppMember
    \/ CallHasMembershipForRoom
    \/ CallGetMemberByAnonJid
    \/ CallGetMemberByMatrixId
    \/ CallGetMatrixMemberByMatrixId
    \/ CallGetXmppMemberByRealJid
    \/ CallGetXmppMemberByMatrixId
    \/ CallGetXmppMembers
    \/ CallGetXmppMembersDevices
    \/ CallGetMatrixMembers
    \/ CallGetMembers
    \/ Return

Spec == Init /\ [][Next]_vars

(***************************************************************************)
(* Event handlers.  The gateway calls the registry from handlers of        *)
(* incoming stanzas; addXmppMember and removeXmppMember have no await, so  *)
(* a handler's call runs from its first line to its return before any      *)
(* other handler's call starts, and the handlers of events that are        *)
(* pending together run in any order.  Each handler here makes one call    *)
(* for a device of one real identity in one room; the adds are for         *)
(* distinct devices.                                                       *)
(***************************************************************************)
HandlerRoom == "chat1"

\* The bare addresses a@x and x.
HandlerIdentities == { <<"a", "@", "x">>, <<"x">> }

\* The devices I/1, I/2 and I/3 of the bare address I.
HandlerDevices(I) == { I \o <<"/", r>> : r \in {"1", "2", "3"} }

HandlerTasks(I) == [op : {"add", "remove"}, device : HandlerDevices(I)]

\* The adds of a handler set are for pairwise distinct devices.
distinctAdds(f) ==
    \A g, h \in DOMAIN f :
        (g # h /\ f[g].op = "add" /\ f[h].op = "add") => f[g].device # f[h].device

InitHandlers ==
    /\ members = [c \in {} |-> <<>>]
    /\ pre = [c \in {} |-> <<>>]
    /\ call = NoCall
    /\ everAdded = {}
    /\ joined = NoneJoined
    /\ liveDevices = {}
    /\ NoStanzas
    /\ \E I \in HandlerIdentities, n \in 1..MaxHandlers :
        handlers \in { [h \in 1..n |->
                           [op |-> f[h].op, device |-> f[h].device,
                            done |-> FALSE, ret |-> FALSE]] :
                       f \in { g \in [1..n -> HandlerTasks(I)] : distinctAdds(g) } }

\* The handler of a join runs addXmppMember for its device.
HandleJoin ==
    \E h \in DOMAIN handlers :
        /\ ~handlers[h].done
        /\ handlers[h].op = "add"
        /\ LET r == addXmppMember(members, HandlerRoom, jid(handlers[h].device),
                                  jid(<<"c", "@", "m", "/", "n">>), "@u:hs")
           IN  /\ members' = r.members
               /\ handlers' = [handlers EXCEPT ![h].done = TRUE, ![h].ret = r.ret]
        /\ liveDevices' = liveDevices \cup {handlers[h].device}
        /\ pre' = members
        /\ everAdded' = everAdded \cup {HandlerRoom}
        /\ UNCHANGED <<call, joined, stanzaVars>>

\* The handler of a leave runs removeXmppMember for its device.
HandleLeave ==
    \E h \in DOMAIN handlers :
        /\ ~handlers[h].done
        /\ handlers[h].op = "remove"
        /\ LET r == removeXmppMember(members, HandlerRoom, handlers[h].device)
           IN  /\ members' = r.members
               /\ handlers' = [handlers EXCEPT ![h].done = TRUE, ![h].ret = r.ret]
        /\ liveDevices' = liveDevices \ {handlers[h].device}
        /\ pre' = members
        /\ UNCHANGED <<call, everAdded, joined, stanzaVars>>

NextHandlers ==
    \/ HandleJoin
    \/ HandleLeave

SpecHandlers == InitHandlers /\ [][NextHandlers]_vars

(***************************************************************************)
(* The stanza builders as a state machine: a caller constructs an object   *)
(* of one of the classes, adds identities and features to a StzaIqDiscoInfo*)
(* and reads xml.                                                          *)
(***************************************************************************)
InitStanza ==
    /\ members = [c \in {} |-> <<>>]
    /\ pre = [c \in {} |-> <<>>]
    /\ call = NoCall
    /\ everAdded = {}
    /\ joined = NoneJoined
    /\ handlers = <<>>
    /\ liveDevices = {}
    /\ NoStanzas

\* A constructor runs with the arguments a.  The model follows one object
\* from its construction on: the builders share no state, so another
\* object would live the same life.
New(a) ==
    /\ stanza' = construct(a)
    /\ made' = a
    /\ stanzaPre' = NoStanza
    /\ stanzaOp' = "new"
    /\ rendered' = <<>>
    /\ UNCHANGED <<registryVars, handlerVars>>

NewStzaPresence ==
    /\ stanza.class = "none"
    /\ \E from \in Froms, to \in Tos, id \in Ids, presenceType \in PresenceTypes :
            New([NoArgs EXCEPT !.class = "StzaPresence", !.from = from, !.to = to,
                               !.id = id, !.presenceType = presenceType])

NewStzaPresenceItem ==
    /\ stanza.class = "none"
    /\ \E from \in Froms, to \in Tos, id \in Ids, self \in BOOLEAN, theJid \in Jids :
            New([NoArgs EXCEPT !.class = "StzaPresenceItem", !.from = from, !.to = to,
                               !.id = id, !.self = self, !.jid = theJid])

NewStzaPresenceError ==
    /\ stanza.class = "none"
    /\ \E from \in Froms, to \in Tos, id \in Ids \ {<<>>} :
            New([NoArgs EXCEPT !.class = "StzaPresenceError", !.from = from,
                               !.to = to, !.id = id])

NewStzaPresenceJoin ==
    /\ stanza.class = "none"
    /\ \E from \in Froms, to \in Tos, id \in Ids, presenceType \in PresenceTypes :
            New([NoArgs EXCEPT !.class = "StzaPresenceJoin", !.from = from, !.to = to,
                               !.id = id, !.presenceType = presenceType])

NewStzaPresencePart ==
    /\ stanza.class = "none"
    /\ \E from \in Froms, to \in Tos :
            New([NoArgs EXCEPT !.class = "StzaPresencePart", !.from = from, !.to = to])

NewStzaMessage ==
    /\ stanza.class = "none"
    /\ \E from \in Froms, to \in Tos, idOrMsg \in IdOrMsgs,
           messageType \in MessageTypes, v4 \in Uuids :
            New([NoArgs EXCEPT !.class = "StzaMessage", !.from = from, !.to = to,
                               !.idOrMsg = idOrMsg, !.messageType = messageType,
                               !.v4 = IF idOrMsg.id = <<>> THEN v4 ELSE <<>>])

NewStzaMessageSubject ==
    /\ stanza.class = "none"
    /\ \E from \in Froms, to \in Tos, id \in Ids, subject \in Subjects :
            New([NoArgs EXCEPT !.class = "StzaMessageSubject", !.from = from,
                               !.to = to, !.id = id, !.subject = subject])

NewStzaIqPing ==
    /\ stanza.class = "none"
    /\ \E from \in Froms, to \in Tos, id \in Ids, v4 \in Uuids :
            New([NoArgs EXCEPT !.class = "StzaIqPing", !.from = from, !.to = to,
                               !.id = id, !.v4 = IF id = <<>> THEN v4 ELSE <<>>])

NewStzaIqDiscoInfo ==
    /\ stanza.class = "none"
    /\ \E from \in Froms, to \in Tos, id \in Ids \ {<<>>} :
            New([NoArgs EXCEPT !.class = "StzaIqDiscoInfo", !.from = from,
                               !.to = to, !.id = id])

\* stanza.identity.add(o).
IdentityAdd ==
    /\ stanza.class = "StzaIqDiscoInfo"
    /\ \E o \in IdentityObjects :
        /\ stanza' = identityAdd(stanza, o)
        /\ made' = [made EXCEPT !.identities =
                        @ \cup {[category |-> o.category, type |-> o.type,
                                 name |-> o.name]}]
    /\ stanzaPre' = stanza
    /\ stanzaOp' = "identity.add"
    /\ rendered' = <<>>
    /\ UNCHANGED <<registryVars, handlerVars>>

\* stanza.feature.add(feat).
FeatureAdd ==
    /\ stanza.class = "StzaIqDiscoInfo"
    /\ \E feat \in Features :
        /\ stanza' = featureAdd(stanza, feat)
        /\ made' = [made EXCEPT !.features = @ \cup {feat}]
    /\ stanzaPre' = stanza
    /\ stanzaOp' = "feature.add"
    /\ rendered' = <<>>
    /\ UNCHANGED <<registryVars, handlerVars>>

\* The caller reads stanza.xml.
ReadXml ==
    /\ stanza.class # "none"
    /\ rendered' = xml(stanza).text
    /\ stanza' = xml(stanza).stanza
    /\ stanzaPre' = stanza
    /\ stanzaOp' = "xml"
    /\ UNCHANGED made
    /\ UNCHANGED <<registryVars, handlerVars>>

NextStanza ==
    \/ NewStzaPresence
    \/ NewStzaPresenceItem
    \/ NewStzaPresenceError
    \/ NewStzaPresenceJoin
    \/ NewStzaPresencePart
    \/ NewStzaMessage
    \/ NewStzaMessageSubject
    \/ NewStzaIqPing
    \/ NewStzaIqDiscoInfo
    \/ IdentityAdd
    \/ FeatureAdd
    \/ ReadXml

SpecStanza == InitStanza /\ [][NextStanza]_vars

(***************************************************************************)
(* Vocabulary of the claims.                                               *)
(***************************************************************************)
\* The real identity of an address: the address without its resource.
bareOf(j) == [j EXCEPT !.resource = <<>>]

\* Positions in a room of the XmppParticipants of real identity I.
xmppPositions(list, I) ==
    { i \in 1..Len(list) : list[i].type = "xmpp" /\ list[i].realJid = I }

\* Positions in a room of the MatrixParticipants of matrixUserId U.
matrixPositions(list, U) ==
    { i \in 1..Len(list) : list[i].type = "matrix" /\ list[i].matrixId = U }

\* The room of the last call before and after it.
roomBefore == getMembers(pre, call.chatName)

roomAfter == getMembers(members, call.chatName)

newXmppParticipant(I, device, anonymousJid, matrixId) ==
    [type |-> "xmpp", anonymousJid |-> anonymousJid, matrixId |-> matrixId,
     realJid |-> I, devices |-> {device}]

(***************************************************************************)
(* C1.  addXmppMember(R, d, anon, mx) returns true exactly when R holds no *)
(* XmppParticipant whose real identity is the resource-stripped d, and     *)
(* then creates one participant with devices = {d}; otherwise it returns   *)
(* false, creates nothing and adds d to the devices of the existing        *)
(* participant.  For a second device d2 # d of the same identity, added    *)
(* after d went into a room without the identity, the call returns false   *)
(* and the room holds exactly one participant for it, with devices         *)
(* {d, d2}.                                                                *)
(***************************************************************************)
C1_AddXmppMemberFirstDevice ==
    call.op = "addXmppMember" =>
        LET R == call.chatName
            d == call.realJid
            I == bareOf(d)
            held == xmppPositions(roomBefore, I)
        IN  /\ call.ret = (held = {})
            /\ call.ret =>
                 roomAfter = Append(roomBefore,
                     newXmppParticipant(I, toString(d), call.anonymousJid, call.matrixId))
            /\ ~call.ret =>
                 /\ Len(roomAfter) = Len(roomBefore)
                 /\ \A i \in 1..Len(roomBefore) :
                        roomAfter[i] =
                            IF i \in held
                            THEN [roomBefore[i] EXCEPT !.devices = @ \cup {toString(d)}]
                            ELSE roomBefore[i]
            /\ held = {} =>
                 \A d2 \in RealJids :
                     (d2 # d /\ bareOf(d2) = I) =>
                         LET second == addXmppMember(members, R, d2,
                                                     call.anonymousJid, call.matrixId)
                             room == getMembers(second.members, R)
                         IN  /\ call.ret
                             /\ ~second.ret
                             /\ Cardinality(xmppPositions(room, I)) = 1
                             /\ \A i \in xmppPositions(room, I) :
                                    room[i].devices = {toString(d), toString(d2)}

(***************************************************************************)
(* C2.  Last device leaves: for an XmppParticipant of real identity I in   *)
(* R, removeXmppMember(R, d) with a full device address d of I returns     *)
(* true exactly when d was its only remaining device; the participant is   *)
(* then removed and findXmppByRealAddress(R, I) is absent.  While other    *)
(* devices remain it returns false, removes only d and keeps the           *)
(* participant.  With devices {d1, d2} the first removal returns false and *)
(* the removal of the other device then returns true, in either order.     *)
(***************************************************************************)
C2_RemoveXmppMemberLastDevice ==
    (call.op = "removeXmppMember" /\ ~call.threw) =>
        LET R == call.chatName
            j == jid(call.realJid)
            I == bareOf(j)
            d == toString(j)
        IN  j.resource # <<>> =>
              \A i \in xmppPositions(roomBefore, I) :
                LET p == roomBefore[i]
                IN  /\ call.ret = (p.devices = {d})
                    /\ call.ret =>
                         /\ xmppPositions(roomAfter, I) = {}
                         /\ getXmppMemberByRealJid(members, R, toString(I)) = <<>>
                    /\ ~call.ret =>
                         roomAfter = [roomBefore EXCEPT ![i] =
                                         [p EXCEPT !.devices = @ \ {d}]]
                    /\ (d \in p.devices /\ Cardinality(p.devices) = 2) =>
                         \A other \in p.devices \ {d} :
                             LET second == removeXmppMember(members, R, other)
                             IN  /\ ~call.ret
                                 /\ second.ret
                                 /\ getXmppMemberByRealJid(second.members, R,
                                                           toString(I)) = <<>>

(***************************************************************************)
(* C3.  removeXmppMember(R, I) with the bare real identity I of an         *)
(* existing XmppParticipant removes the whole participant and returns      *)
(* true, however many devices it still has; afterwards R holds no          *)
(* XmppParticipant for I and none of its devices is in                     *)
(* listXmppDeviceAddresses(R).                                             *)
(***************************************************************************)
C3_RemoveXmppMemberBare ==
    (call.op = "removeXmppMember" /\ ~call.threw) =>
        LET R == call.chatName
            j == jid(call.realJid)
            I == bareOf(j)
            held == xmppPositions(roomBefore, I)
        IN  (j.resource = <<>> /\ held # {}) =>
              /\ call.ret
              /\ xmppPositions(roomAfter, I) = {}
              /\ \A i \in held :
                    roomBefore[i].devices \cap getXmppMembersDevices(members, R) = {}

(***************************************************************************)
(* C5.  Every room holds at most one MatrixParticipant per matrixUserId    *)
(* and at most one XmppParticipant per real identity.                      *)
(***************************************************************************)
C5_OneParticipantPerIdentity ==
    \A c \in DOMAIN members :
        \A i \in 1..Len(members[c]) :
            /\ members[c][i].type = "matrix" =>
                 matrixPositions(members[c], members[c][i].matrixId) = {i}
            /\ members[c][i].type = "xmpp" =>
                 xmppPositions(members[c], members[c][i].realJid) = {i}

(***************************************************************************)
(* C4.  addMatrixMember(R, U, anon) returns true and inserts one           *)
(* MatrixParticipant exactly when R holds no MatrixParticipant for U;      *)
(* otherwise it returns false and leaves the registry unchanged.  After    *)
(* the call R holds exactly one MatrixParticipant for U, and an identical  *)
(* second call returns false and changes nothing.                          *)
(***************************************************************************)
C4_AddMatrixMember ==
    call.op = "addMatrixMember" =>
        LET R == call.chatName
            U == call.matrixId
            member == [type |-> "matrix", anonymousJid |-> call.anonymousJid,
                       matrixId |-> U, realJid |-> NoJid, devices |-> {}]
            second == addMatrixMember(members, R, U, call.anonymousJid)
        IN  /\ call.ret = (matrixPositions(roomBefore, U) = {})
            /\ call.ret =>
                 /\ roomAfter = Append(roomBefore, member)
                 /\ DOMAIN members = DOMAIN pre \cup {R}
                 /\ \A c \in DOMAIN pre \ {R} : members[c] = pre[c]
            /\ ~call.ret => members = pre
            /\ Cardinality(matrixPositions(roomAfter, U)) = 1
            /\ ~second.ret
            /\ second.members = members

\* A second add of a Matrix user the room already holds, beside an
\* XmppParticipant bound to the same matrixUserId.
C4_Witness ==
    /\ call.op = "addMatrixMember"
    /\ ~call.ret
    /\ Cardinality(matrixPositions(roomAfter, call.matrixId)) = 1
    /\ \E i \in 1..Len(roomAfter) :
          roomAfter[i].type = "xmpp" /\ roomAfter[i].matrixId = call.matrixId

(***************************************************************************)
(* C6.  Every XmppParticipant present in any room has a non-empty devices  *)
(* set, whatever operations were called: a participant whose last device   *)
(* is removed leaves the room in that same operation.                      *)
(***************************************************************************)
C6_DevicesNeverEmpty ==
    \A c \in DOMAIN members :
        \A i \in 1..Len(members[c]) :
            members[c][i].type = "xmpp" => members[c][i].devices # {}

\* The only device of a participant was removed by its full address, and
\* the participant went with it.
C6_Witness ==
    /\ call.op = "removeXmppMember"
    /\ ~call.threw
    /\ jid(call.realJid).resource # <<>>
    /\ \E i \in xmppPositions(roomBefore, bareOf(jid(call.realJid))) :
          roomBefore[i].devices = {toString(jid(call.realJid))}
    /\ xmppPositions(roomAfter, bareOf(jid(call.realJid))) = {}
    /\ call.ret

(***************************************************************************)
(* C7.  The anonymousIdentity of a participant is unique among the         *)
(* participants (matrix and xmpp) present in the same room.                *)
(***************************************************************************)
anonUnique(list) ==
    \A i, k \in 1..Len(list) :
        i # k => list[i].anonymousJid # list[k].anonymousJid

C7_AnonymousIdentityUnique ==
    \A c \in DOMAIN members : anonUnique(members[c])

(***************************************************************************)
(* C7, amended.  The registry does not enforce the uniqueness: a room      *)
(* whose participants had pairwise distinct anonymousIdentity values loses *)
(* that only by an add that creates a participant with an                  *)
(* anonymousIdentity a participant of the room already has.                *)
(* findByAnonymousIdentity(R, a) returns the earliest added participant of *)
(* R that has a, and absent when none has.                                 *)
(***************************************************************************)
C7_UniqueUnlessAddedTwice ==
    /\ \A c \in DOMAIN members :
          (anonUnique(getMembers(pre, c)) /\ ~anonUnique(members[c])) =>
              /\ call.op \in Adders
              /\ call.chatName = c
              /\ call.ret
              /\ \E i \in 1..Len(roomBefore) :
                    roomBefore[i].anonymousJid = call.anonymousJid
    /\ call.op = "getMemberByAnonJid" =>
          LET having == { i \in 1..Len(roomBefore) :
                            roomBefore[i].anonymousJid = jid(call.anonJid) }
          IN  IF having = {} THEN call.ret = <<>>
              ELSE \E i \in having :
                      /\ \A k \in having : i <= k
                      /\ call.ret = <<roomBefore[i]>>

\* A lookup by an anonymousIdentity that a Matrix and an XMPP participant
\* of the room share returns the one added first.
C7_Witness ==
    /\ call.op = "getMemberByAnonJid"
    /\ ~anonUnique(roomBefore)
    /\ Cardinality({ i \in 1..Len(roomBefore) :
                       roomBefore[i].anonymousJid = jid(call.anonJid) }) = 2
    /\ call.ret = <<roomBefore[1]>>

(***************************************************************************)
(* C8.  The anonymousIdentity and matrixUserId of a participant never      *)
(* change between its creation and its removal: an operation leaves the    *)
(* identities of a room's participants as they were, appends one           *)
(* participant, or removes one; addXmppMember for a further device keeps   *)
(* the values given with the first device.                                 *)
(***************************************************************************)
identityOf(p) ==
    [type |-> p.type, anonymousJid |-> p.anonymousJid,
     matrixId |-> p.matrixId, realJid |-> p.realJid]

RECURSIVE identities(_)
identities(list) ==
    IF list = <<>> THEN <<>> ELSE <<identityOf(Head(list))>> \o identities(Tail(list))

C8_IdentitiesNeverChange ==
    \A c \in ChatNames :
        LET a == identities(getMembers(pre, c))
            b == identities(getMembers(members, c))
        IN  \/ b = a
            \/ /\ call.op \in Adders
               /\ call.ret
               /\ call.chatName = c
               /\ Len(b) = Len(a) + 1
               /\ SubSeq(b, 1, Len(a)) = a
            \/ /\ call.op \in {"removeMatrixMember", "removeXmppMember"}
               /\ call.ret
               /\ call.chatName = c
               /\ \E i \in 1..Len(a) :
                     b = SubSeq(a, 1, i - 1) \o SubSeq(a, i + 1, Len(a))

\* A second device joined with another anonymousIdentity and another
\* matrixUserId than the first; the participant kept those of the first.
C8_Witness ==
    /\ call.op = "addXmppMember"
    /\ ~call.ret
    /\ \E i \in xmppPositions(roomBefore, bareOf(call.realJid)) :
          /\ roomBefore[i].anonymousJid # call.anonymousJid
          /\ roomBefore[i].matrixId # call.matrixId
          /\ roomAfter[i].anonymousJid = roomBefore[i].anonymousJid
          /\ roomAfter[i].matrixId = roomBefore[i].matrixId
          /\ toString(call.realJid) \in roomAfter[i].devices \ roomBefore[i].devices

(***************************************************************************)
(* C9.  hasRoom(R) is true iff addMatrixMember or addXmppMember was ever   *)
(* called for R: lookups and removals never make it true, and it stays     *)
(* true after every later operation, the removal of all members included.  *)
(***************************************************************************)
C9_HasRoomIffEverAdded ==
    /\ \A c \in ChatNames : hasMembershipForRoom(members, c) <=> c \in everAdded
    /\ call.op = "hasMembershipForRoom" => call.ret = (call.chatName \in everAdded)

\* hasRoom answers true for a room whose members were all removed.
C9_Witness ==
    /\ call.op = "hasMembershipForRoom"
    /\ call.ret
    /\ roomAfter = <<>>

(***************************************************************************)
(* C10.  For a room to which no member was ever added, every lookup        *)
(* returns an empty collection or absent, without failing and without      *)
(* changing the registry; hasRoom remains false.                           *)
(***************************************************************************)
emptyResult ==
    CASE call.op \in Finders \cup Listers -> call.ret = <<>>
      [] call.op = "getXmppMembersDevices" -> call.ret = {}
      [] call.op = "hasMembershipForRoom" -> call.ret = FALSE

C10_UnknownRoomLookups ==
    (call.op \in Lookups /\ call.chatName \notin everAdded) =>
        /\ ~call.threw
        /\ emptyResult
        /\ members = pre
        /\ ~hasMembershipForRoom(members, call.chatName)

(***************************************************************************)
(* C10, amended.  As C10, except that findXmppByRealAddress given an       *)
(* address that does not parse ends in the parse failure, as it does for   *)
(* any room; it still changes nothing.                                     *)
(***************************************************************************)
C10_UnknownRoomLookupsParsed ==
    (call.op \in Lookups /\ call.chatName \notin everAdded) =>
        /\ call.threw = (call.op = "getXmppMemberByRealJid" /\ jidThrows(call.realJid))
        /\ ~call.threw => emptyResult
        /\ members = pre
        /\ ~hasMembershipForRoom(members, call.chatName)

\* A device address is looked up in a room nothing was added to, while the
\* other room holds a participant of that very identity.
C10_Witness ==
    /\ call.op = "getXmppMemberByRealJid"
    /\ ~call.threw
    /\ call.chatName \notin everAdded
    /\ call.ret = <<>>
    /\ \E c \in DOMAIN members :
          xmppPositions(members[c], bareOf(jid(call.realJid))) # {}

(***************************************************************************)
(* C11.  A redundant removal returns false and leaves the whole registry   *)
(* unchanged: removeMatrixMember(R, U) when R holds no MatrixParticipant   *)
(* of U, removeXmppMember(R, a) when R holds no XmppParticipant of the     *)
(* real identity of a, and removeXmppMember(R, d) for a device d that is   *)
(* in the devices of no participant of its identity.                       *)
(***************************************************************************)
C11_RedundantRemoval ==
    /\ (call.op = "removeMatrixMember"
        /\ matrixPositions(roomBefore, call.matrixId) = {})
       => (call.ret = FALSE /\ members = pre)
    /\ (call.op = "removeXmppMember" /\ ~call.threw) =>
        LET j == jid(call.realJid)
            P == xmppPositions(roomBefore, bareOf(j))
        IN  /\ P = {} => (call.ret = FALSE /\ members = pre)
            /\ (/\ P # {}
                /\ j.resource # <<>>
                /\ \A i \in P : toString(j) \notin roomBefore[i].devices)
               => (call.ret = FALSE /\ members = pre)

\* The device a@x/2 is removed from a room whose participant a@x has only
\* another device.
C11_Witness ==
    /\ call.op = "removeXmppMember"
    /\ ~call.threw
    /\ jid(call.realJid).resource # <<>>
    /\ xmppPositions(roomBefore, bareOf(jid(call.realJid))) # {}
    /\ \A i \in xmppPositions(roomBefore, bareOf(jid(call.realJid))) :
           toString(jid(call.realJid)) \notin roomBefore[i].devices
    /\ call.ret = FALSE
    /\ members = pre

(***************************************************************************)
(* C12.  When the address string given to getXmppMemberByRealJid or to     *)
(* removeXmppMember does not parse (the parser finds no domain in it), the *)
(* call ends in the parser's TypeError and the registry is exactly what it *)
(* was before the call.                                                    *)
(***************************************************************************)
unparseable(s) == parse(s).domain = <<>>

C12_ParseFailure ==
    (/\ call.op \in {"getXmppMemberByRealJid", "removeXmppMember"}
     /\ unparseable(call.realJid))
    => (call.threw /\ members = pre)

\* "a@" is given to removeXmppMember while the room holds a participant.
C12_Witness ==
    /\ call.op = "removeXmppMember"
    /\ unparseable(call.realJid)
    /\ roomBefore # <<>>
    /\ call.threw
    /\ members = pre

(***************************************************************************)
(* C13.  Handlers run one after another in any order.  When all of them    *)
(* add distinct devices of one real identity to a room that did not hold   *)
(* it, exactly one of the adds that have run returned true and the room    *)
(* holds exactly one participant of the identity, whose devices are all    *)
(* the devices added.  With removes among them, no participant ever has an *)
(* empty devices set and no device that was added and not removed since is *)
(* missing from the participants of the identity.                          *)
(***************************************************************************)
C13_ConcurrentJoins ==
    handlers # <<>> =>
        LET I    == bareOf(jid(handlers[1].device))
            room == getMembers(members, HandlerRoom)
            P    == xmppPositions(room, I)
            ran  == { h \in DOMAIN handlers : handlers[h].done }
        IN  /\ ((\A h \in DOMAIN handlers : handlers[h].op = "add") /\ ran # {})
               => /\ Cardinality({ h \in ran : handlers[h].ret }) = 1
                  /\ Cardinality(P) = 1
                  /\ \A i \in P : room[i].devices = liveDevices
            /\ \A i \in 1..Len(room) : room[i].devices # {}
            /\ liveDevices \subseteq UNION { room[i].devices : i \in P }

(***************************************************************************)
(* Vocabulary of the claims about the stanza builders.                     *)
(***************************************************************************)
\* The characters of a text that delimit markup and attribute values.
markup(text) == SelectSeq(text, LAMBDA c : c \in {"<", ">", "\"", "'"})

\* The number of & in a text that do not start a character reference.
rawAmpersands(text) ==
    Cardinality({ i \in 1..Len(text) :
                    /\ text[i] = "&"
                    /\ ~(i + 2 <= Len(text) /\ text[i + 1] = "#" /\ text[i + 2] = "x") })

\* The positions at which pat occurs in text.
occurrences(pat, text) ==
    { i \in 1..(Len(text) + 1 - Len(pat)) : SubSeq(text, i, i + Len(pat) - 1) = pat }

\* The first of a non-empty set of positions.
first(positions) == CHOOSE i \in positions : \A k \in positions : i <= k

\* The content of the first <body> element of a text.
bodyContent(text) ==
    LET open  == first(occurrences(<<"<", "b", "o", "d", "y", ">">>,
        text)) + 6
        close == first({ j \in occurrences(<<"<", "/", "b", "o", "d", "y",
            ">">>, text) : j >= open })
    IN  SubSeq(text, open, close - 1)

\* The constructor arguments a with from, to, id and body replaced by
\* texts of plain letters (an absent id or body stays absent).
harmless(a) ==
    [a EXCEPT !.from = <<"f">>, !.to = <<"t">>,
              !.id = IF @ = <<>> THEN <<>> ELSE <<"i">>,
              !.idOrMsg = [@ EXCEPT !.id = IF @ = <<>> THEN <<>> ELSE <<"i">>,
                                    !.body = IF @ = <<>> THEN <<>> ELSE <<"b">>]]

\* The object read last, had it been constructed with harmless(made).
harmlessTwin ==
    LET h == construct(harmless(made))
    IN  [stanzaPre EXCEPT !._from = h._from, !._to = h._to, !._id = h._id,
                          !.body = h.body]

(***************************************************************************)
(* C14.  Whatever from, to, id and body a stanza of any class was built    *)
(* with, the markup characters (< > " ') of its rendered text are those of *)
(* the same stanza built with plain-letter values, and it has no more &    *)
(* outside a character reference than that one: the characters of the      *)
(* values appear only as character references.                             *)
(***************************************************************************)
C14_ValuesEncoded ==
    stanzaOp = "xml" =>
        /\ markup(rendered) = markup(xml(harmlessTwin).text)
        /\ rawAmpersands(rendered) = rawAmpersands(xml(harmlessTwin).text)

\* A message whose from is "<" and whose body holds all five characters is
\* rendered with its own body.
C14_Witness ==
    /\ stanzaOp = "xml"
    /\ made.class = "StzaMessage"
    /\ made.from = <<"<">>
    /\ made.idOrMsg.body = <<"<", "&", ">", "'", "\"">>
    /\ made.idOrMsg.attachments = <<>>
    /\ bodyContent(rendered) = <<"&", "#", "x", "3", "C", ";", "&", "#", "x",
        "2", "6", ";", "&", "#", "x", "3", "E", ";", "&", "#", "x", "2", "7",
        ";", "&", "#", "x", "2", "2", ";">>

(***************************************************************************)
(* C15.  The <body> of a rendered StzaMessage built from a message record  *)
(* with exactly one attachment holds the encoded uri of the attachment,    *)
(* whatever body the record had; with no or several attachments it holds   *)
(* the encoded body of the record.                                         *)
(***************************************************************************)
C15_BodyIsAttachment ==
    (stanzaOp = "xml" /\ made.class = "StzaMessage" /\ made.idOrMsg.kind = "message") =>
        bodyContent(rendered) =
            encode(IF Len(made.idOrMsg.attachments) = 1
                   THEN made.idOrMsg.attachments[1]
                   ELSE made.idOrMsg.body)

\* A record with the body "hi" and the one attachment u?a&b.
C15_Witness ==
    /\ stanzaOp = "xml"
    /\ made.class = "StzaMessage"
    /\ made.idOrMsg.kind = "message"
    /\ made.idOrMsg.body = <<"h", "i">>
    /\ made.idOrMsg.attachments = <<<<"u", "?", "a", "&", "b">>>>
    /\ bodyContent(rendered) = <<"u", "?", "a", "&", "#", "x", "2", "6", ";",
        "b">>

(***************************************************************************)
(* C16.  The rendered query of a StzaIqDiscoInfo holds one <identity>      *)
(* element for each distinct (category, type, name) added to it and one    *)
(* <feature> element for each distinct feature string added to it.         *)
(***************************************************************************)
C16_DistinctElements ==
    (stanzaOp = "xml" /\ made.class = "StzaIqDiscoInfo") =>
        /\ Cardinality(occurrences(<<"<", "i", "d", "e", "n", "t", "i", "t",
            "y", " ">>, rendered)) = Cardinality(made.identities)
        /\ Cardinality(occurrences(<<"<", "f", "e", "a", "t", "u", "r", "e",
            " ">>, rendered)) = Cardinality(made.features)

(***************************************************************************)
(* C17.  Reading xml leaves every field of the stanza as it was.           *)
(***************************************************************************)
C17_RenderSideEffectFree ==
    stanzaOp = "xml" => stanza = stanzaPre

(***************************************************************************)
(* C17, amended.  Reading xml leaves every field of the stanza as it was,  *)
(* except that reading xml of a StzaMessage with exactly one attachment    *)
(* sets its body to the uri of the attachment.                             *)
(***************************************************************************)
C17_RenderChangesOnlyBody ==
    stanzaOp = "xml" =>
        stanza = IF stanzaPre.class = "StzaMessage" /\ Len(stanzaPre.attachments) = 1
                 THEN [stanzaPre EXCEPT !.body = stanzaPre.attachments[1]]
                 ELSE stanzaPre

\* A message with the body "hi" and one attachment has been read: its body
\* is now the uri.
C17_Witness ==
    /\ stanzaOp = "xml"
    /\ stanzaPre.class = "StzaMessage"
    /\ stanzaPre.body = <<"h", "i">>
    /\ stanzaPre.attachments = <<<<"u", "/", "1">>>>
    /\ stanza.body = <<"u", "/", "1">>
    /\ stanza = [stanzaPre EXCEPT !.body = <<"u", "/", "1">>]

(***************************************************************************)
(* C18.  The rendered text of a StzaPresenceItem built with jid = "" has   *)
(* no jid attribute; built with a non-empty jid, its <item> has one jid    *)
(* attribute, whose value is the encoded jid.                              *)
(***************************************************************************)
C18_ItemJidEncoded ==
    (stanzaOp = "xml" /\ made.class = "StzaPresenceItem") =>
        LET attribute == occurrences(<<" ", "j", "i", "d", "=">>, rendered)
            expected  == <<" ", "j", "i", "d", "=", "'">> \o encode(made.jid)
                         \o <<"'", " ", "r", "o", "l", "e", "=">>
        IN  IF made.jid = <<>>
            THEN attribute = {}
            ELSE /\ Cardinality(attribute) = 1
                 /\ Cardinality(occurrences(expected, rendered)) = 1

(***************************************************************************)
(* C19.  For each room and real identity, the calls of addXmppMember and   *)
(* removeXmppMember that return true alternate, the first being an add: an *)
(* add returns true only when the last true result for the room and the    *)
(* identity was not that of an add, a remove only when it was.  The same   *)
(* for addMatrixMember and removeMatrixMember per room and matrixId.       *)
(***************************************************************************)
C19_SignalsAlternate ==
    (call.op \in Mutators /\ ~call.threw /\ call.ret = TRUE) =>
        CASE call.op = "addXmppMember"      -> signalKey(call) \notin joined.xmpp
          [] call.op = "removeXmppMember"   -> signalKey(call) \in joined.xmpp
          [] call.op = "addMatrixMember"    -> signalKey(call) \notin joined.matrix
          [] call.op = "removeMatrixMember" -> signalKey(call) \in joined.matrix

(***************************************************************************)
(* C20.  An add or a remove changes at most the one participant it         *)
(* targets: the matrix participant of the given matrixId (matrix methods)  *)
(* or the xmpp participant of the resource-stripped address (xmpp methods) *)
(* in the given room.  Every other room keeps its entry and its members,   *)
(* the other participants of the room stay as they were and in their       *)
(* order, among them a participant of the other variant with the same      *)
(* matrixId, and at most one participant of the target is created, removed *)
(* or altered.                                                             *)
(***************************************************************************)
\* The participant p is the target of the call c.
targets(c, p) ==
    IF c.op \in {"addMatrixMember", "removeMatrixMember"}
    THEN p.type = "matrix" /\ p.matrixId = c.matrixId
    ELSE p.type = "xmpp" /\ p.realJid = signalKey(c)[2]

\* The sequence without its k-th element.
without(list, k) == SubSeq(list, 1, k - 1) \o SubSeq(list, k + 1, Len(list))

\* One list is the other with at most one element added, removed or altered.
atMostOneChanged(before, after) ==
    \/ after = before
    \/ \E k \in 1..Len(after) : without(after, k) = before
    \/ \E k \in 1..Len(before) : without(before, k) = after
    \/ /\ Len(after) = Len(before)
       /\ Cardinality({ i \in 1..Len(before) : after[i] # before[i] }) <= 1

C20_OnlyTheTarget ==
    (call.op \in Mutators /\ ~call.threw) =>
        /\ \A c \in ChatNames \ {call.chatName} :
              /\ hasMembershipForRoom(members, c) = hasMembershipForRoom(pre, c)
              /\ getMembers(members, c) = getMembers(pre, c)
        /\ SelectSeq(roomAfter, LAMBDA p : ~targets(call, p))
           = SelectSeq(roomBefore, LAMBDA p : ~targets(call, p))
        /\ atMostOneChanged(SelectSeq(roomBefore, LAMBDA p : targets(call, p)),
                            SelectSeq(roomAfter, LAMBDA p : targets(call, p)))

\* removeMatrixMember removes the matrix participant of a matrixId from a
\* room that also holds an xmpp participant with that matrixId, which stays.
C20_Witness ==
    /\ call.op = "removeMatrixMember"
    /\ call.ret = TRUE
    /\ \E i \in 1..Len(roomBefore) :
          /\ roomBefore[i].type = "xmpp"
          /\ roomBefore[i].matrixId = call.matrixId
          /\ roomAfter = <<roomBefore[i]>>
    /\ Len(roomBefore) = 2

====
